---- MODULE Spec2Model ----
(***************************************************************************)
(* A model of process_restart.py: the Material binary codec (read and      *)
(* to_binary), the snapshot assembler (Restart_File.read_restart), the     *)
(* store's queries and write_binary, the ZAI translator (translate) and    *)
(* the dictionary merge of the application script.                         *)
(*                                                                         *)
(* Modelling conventions                                                   *)
(*  - a Python dict is a sequence of <<key, value>> pairs in insertion     *)
(*    order (a dict iterates in insertion order, and an overwrite keeps    *)
(*    the key's position);                                                 *)
(*  - an optional argument is <<>> (None) or <<v>>;                        *)
(*  - a str is a sequence of one-character strings; a material name is a   *)
(*    sequence of Unicode code points (below 2048: one or two UTF-8 bytes);*)
(*  - a file is a sequence of bytes 0..255; struct's "q" is the 8-byte     *)
(*    little-endian integer (values 0 .. 2^31-1 are modelled), struct's    *)
(*    "d" the IEEE-754 double of the floats 0.0, 1.0 and 2.0, written      *)
(*    0, 1 and 2;                                                          *)
(*  - an operator that uses an argument more than once binds it first, as  *)
(*    The({e : x \in {arg}}), which is e with x the value of arg, so that  *)
(*    TLC evaluates the argument once.                                     *)
(***************************************************************************)
EXTENDS Integers, Sequences, FiniteSets, TLC

VARIABLES
  \* Restart_File: one store and the file at its path
  pc, path_to_file, snapshots, burnups, times, current_step, disk, stream, pos, ret,
  \* Material codec: one Material, its block, the Material read back
  cpc, cmat, cblock, cread,
  \* translate: a ZAI, its name, the name translated back
  tpc, tzai, tname, tback,
  \* the script's merge: the two sources and the merged dictionary
  mpc, materials1, materials2, materials3

storeVars == <<pc, path_to_file, snapshots, burnups, times, current_step, disk, stream, pos, ret>>
codecVars == <<cpc, cmat, cblock, cread>>
transVars == <<tpc, tzai, tname, tback>>
mergeVars == <<mpc, materials1, materials2, materials3>>
vars == <<storeVars, codecVars, transVars, mergeVars>>

----------------------------------------------------------------------------
(* Python values *)

None == <<>>
Some(v) == <<v>>
IsNone(o) == o = <<>>
Val(o) == o[1]

The(S) == CHOOSE x \in S : TRUE

Min(a, b) == IF a < b THEN a ELSE b

RECURSIVE Concat(_)
Concat(ss) == IF ss = <<>> THEN <<>> ELSE Head(ss) \o Concat(Tail(ss))

(* dict: a sequence of <<key, value>> pairs, keys distinct, insertion order *)
RECURSIVE DictIndex(_, _)
DictIndex(d_, k_) ==
  The({IF d = <<>> THEN 0
       ELSE IF d[Len(d)][1] = k THEN Len(d)
       ELSE DictIndex(SubSeq(d, 1, Len(d) - 1), k)
       : d \in {d_}, k \in {k_}})

DictHas(d, k) == DictIndex(d, k) # 0
DictGet(d_, k_) == The({d[i][2] : d \in {d_}, i \in {DictIndex(d_, k_)}})
DictSet(d_, k_, v_) ==
  The({IF i # 0 THEN [d EXCEPT ![i] = <<k, v>>] ELSE Append(d, <<k, v>>)
       : d \in {d_}, k \in {k_}, v \in {v_}, i \in {DictIndex(d_, k_)}})
DictKeys(d) == [i \in 1..Len(d) |-> d[i][1]]
DictKeySet(d) == {d[i][1] : i \in 1..Len(d)}
DictItems(d) == {d[i] : i \in 1..Len(d)}

(* str(int) and int(str), decimal *)
Digits == <<"0", "1", "2", "3", "4", "5", "6", "7", "8", "9">>
DigitSet == {Digits[i] : i \in 1..10}
DigitVal(c) == (CHOOSE i \in 1..10 : Digits[i] = c) - 1

RECURSIVE StrNat(_)
StrNat(n_) ==
  The({IF n < 10 THEN <<Digits[n + 1]>>
       ELSE StrNat(n \div 10) \o <<Digits[(n % 10) + 1]>>
       : n \in {n_}})
str(n_) == The({IF n < 0 THEN <<"-">> \o StrNat(-n) ELSE StrNat(n) : n \in {n_}})

isdigit(s) == s # <<>> /\ \A i \in 1..Len(s) : s[i] \in DigitSet

RECURSIVE IntNat(_)
IntNat(s) == IF s = <<>> THEN 0 ELSE 10 * IntNat(SubSeq(s, 1, Len(s) - 1)) + DigitVal(s[Len(s)])
int(s) == IF s # <<>> /\ s[1] = "-" THEN -IntNat(Tail(s)) ELSE IntNat(s)

----------------------------------------------------------------------------
(* struct and UTF-8 *)

Zeros(n) == [i \in 1..n |-> 0]

(* struct.pack('q', v), 0 <= v < 2^31: little-endian, 8 bytes *)
pack_q(v) ==
  <<v % 256, (v \div 256) % 256, (v \div 65536) % 256, (v \div 16777216) % 256, 0, 0, 0, 0>>

(* struct.unpack('q', b) of 8 bytes; -1 stands for every value outside 0 .. 2^31-1 *)
unpack_q(b_) ==
  The({IF b[5] = 0 /\ b[6] = 0 /\ b[7] = 0 /\ b[8] = 0 /\ b[4] < 128
       THEN b[1] + 256 * b[2] + 65536 * b[3] + 16777216 * b[4]
       ELSE -1
       : b \in {b_}})

(* struct.pack('d', f) for f in 0.0, 1.0, 2.0 *)
pack_d(f) ==
  CASE f = 0 -> <<0, 0, 0, 0, 0, 0, 0, 0>>
    [] f = 1 -> <<0, 0, 0, 0, 0, 0, 240, 63>>
    [] f = 2 -> <<0, 0, 0, 0, 0, 0, 0, 64>>

(* struct.unpack('d', b) of 8 bytes; -1 stands for every other double *)
unpack_d(b_) ==
  The({CASE b = <<0, 0, 0, 0, 0, 0, 0, 0>> -> 0
         [] b = <<0, 0, 0, 0, 0, 0, 240, 63>> -> 1
         [] b = <<0, 0, 0, 0, 0, 0, 0, 64>> -> 2
         [] OTHER -> -1
       : b \in {b_}})

(* struct.pack('<n>s', b): b cut to n bytes, or padded with zero bytes to n *)
pack_s(n, b) == IF Len(b) >= n THEN SubSeq(b, 1, n) ELSE b \o Zeros(n - Len(b))

(* str.encode(name): UTF-8 of code points below 2048 *)
RECURSIVE encode(_)
encode(name) ==
  IF name = <<>> THEN <<>>
  ELSE LET c == Head(name)
       IN (IF c < 128 THEN <<c>> ELSE <<192 + (c \div 64), 128 + (c % 64)>>)
          \o encode(Tail(name))

(* bytes.decode('UTF-8'), <<text>> or <<>> for a UnicodeDecodeError: one-   *)
(* and two-byte forms; anything else (a lone lead or continuation byte, an  *)
(* overlong form) is an error                                               *)
RECURSIVE decode(_)
decode_more(text, rest) == IF IsNone(rest) THEN None ELSE Some(text \o Val(rest))
decode(b_) ==
  The({IF b = <<>> THEN Some(<<>>)
       ELSE IF b[1] < 128
       THEN The({decode_more(<<b[1]>>, r) : r \in {decode(Tail(b))}})
       ELSE IF b[1] >= 194 /\ b[1] < 224 /\ Len(b) >= 2 /\ b[2] >= 128 /\ b[2] < 192
       THEN The({decode_more(<<(b[1] - 192) * 64 + (b[2] - 128)>>, r)
                 : r \in {decode(SubSeq(b, 3, Len(b)))}})
       ELSE None
       : b \in {b_}})

(* file.read(n) at offset p: the next n bytes, or as many as are left *)
file_read(file_, p_, n_) ==
  The({SubSeq(file, p + 1, Min(p + n, Len(file))) : file \in {file_}, p \in {p_}, n \in {n_}})

----------------------------------------------------------------------------
(* class Material *)

Material(name, bu_global, bu_days, nnuc, adens, mdens, bu, nuclides) ==
  [name |-> name, bu_global |-> bu_global, bu_days |-> bu_days, nnuc |-> nnuc,
   adens |-> adens, mdens |-> mdens, bu |-> bu, nuclides |-> nuclides]

(* Material(): no attribute is set yet *)
NoMaterial == Material(<<>>, 0, 0, 0, 0, 0, 0, <<>>)

ReadResult(kind, exc, mat, p) == [kind |-> kind, exc |-> exc, mat |-> mat, pos |-> p]

(* the loop of Material.read over the nuclide pairs, k pairs left to read:  *)
(* the dictionary and the offset after the last pair, <<>> when a pair is   *)
(* cut short (struct.error)                                                 *)
RECURSIVE read_nuclides(_, _, _, _)
read_nuclides(file_, p_, k_, nuclides_) ==
  The({IF k <= 0 THEN Some([nuclides |-> nuclides, pos |-> p])
       ELSE IF Len(s) # 16 THEN None
       ELSE read_nuclides(file, p + 16, k - 1,
              DictSet(nuclides, str(unpack_q(SubSeq(s, 1, 8))), unpack_d(SubSeq(s, 9, 16))))
       : file \in {file_}, p \in {p_}, k \in {k_}, nuclides \in {nuclides_},
         s \in {file_read(file_, p_, 16)}})

(* Material.read after the name: the six fixed-width fields f[1] .. f[6] at *)
(* offset p, then the nuclides                                              *)
read_fields(file_, p_, name_) ==
  The({IF \E i \in 1..6 : Len(f[i]) # 8
       THEN ReadResult("error", "struct.error", NoMaterial, Len(file))
       ELSE The({IF IsNone(r) THEN ReadResult("error", "struct.error", NoMaterial, Len(file))
                 ELSE ReadResult("ok", "",
                        Material(name, unpack_d(f[1]), unpack_d(f[2]), unpack_q(f[3]),
                                 unpack_d(f[4]), unpack_d(f[5]), unpack_d(f[6]),
                                 Val(r).nuclides),
                        Val(r).pos)
                 : r \in {read_nuclides(file, p + 48, unpack_q(f[3]), <<>>)}})
       : file \in {file_}, p \in {p_}, name \in {name_},
         f \in {[i \in 1..6 |-> file_read(file_, p_ + 8 * (i - 1), 8)]}})

(* Material.read after the length n of the name *)
read_name(file_, p_, n_) ==
  The({IF n < 0 \/ Len(b) # n
       THEN ReadResult("error", "struct.error", NoMaterial, Len(file))
       ELSE The({IF IsNone(name)
                 THEN ReadResult("error", "UnicodeDecodeError", NoMaterial, p + n)
                 ELSE read_fields(file, p + n, Val(name))
                 : name \in {decode(b)}})
       : file \in {file_}, p \in {p_}, n \in {n_}, b \in {file_read(file_, p_, n_)}})

(* a Material.read that takes fewer than 8 bytes of length for the end of    *)
(* the file: "if len(s) < 8: return False"                                   *)
read_short_eof(file_, p_) ==
  The({IF Len(s) # 8 THEN ReadResult("eof", "", NoMaterial, Len(file))
       ELSE read_name(file, p + 8, unpack_q(s))
       : file \in {file_}, p \in {p_}, s \in {file_read(file_, p_, 8)}})

(* a Material.read without "if not s: return False": the end of the file is  *)
(* the struct.error of unpacking no bytes                                    *)
read_no_eof(file_, p_) ==
  The({IF Len(s) # 8 THEN ReadResult("error", "struct.error", NoMaterial, Len(file))
       ELSE read_name(file, p + 8, unpack_q(s))
       : file \in {file_}, p \in {p_}, s \in {file_read(file_, p_, 8)}})

(* Material.read(file) with the file at offset p: "eof" is the False return, *)
(* "ok" the True return, "error" an exception (exc names it)                 *)
read(file_, p_) ==
  The({IF s = <<>> THEN ReadResult("eof", "", NoMaterial, p)
       ELSE IF Len(s) # 8 THEN ReadResult("error", "struct.error", NoMaterial, Len(file))
       ELSE read_name(file, p + 8, unpack_q(s))
       : file \in {file_}, p \in {p_}, s \in {file_read(file_, p_, 8)}})

RECURSIVE nuclides_to_binary(_)
nuclides_to_binary(nuclides) ==
  IF nuclides = <<>> THEN <<>>
  ELSE pack_q(int(Head(nuclides)[1])) \o pack_d(Head(nuclides)[2])
       \o nuclides_to_binary(Tail(nuclides))

(* Material.to_binary() *)
to_binary(m) ==
  pack_q(Len(m.name))
  \o pack_s(Len(m.name), encode(m.name))
  \o pack_d(m.bu_global) \o pack_d(m.bu_days) \o pack_q(m.nnuc)
  \o pack_d(m.adens) \o pack_d(m.mdens) \o pack_d(m.bu)
  \o nuclides_to_binary(m.nuclides)

----------------------------------------------------------------------------
(* translate *)

elements ==
  << <<"H">>, <<"H","e">>, <<"L","i">>, <<"B","e">>, <<"B">>, <<"C">>, <<"N">>, 
     <<"O">>, <<"F">>, <<"N","e">>, <<"N","a">>, <<"M","g">>, <<"A","l">>, 
     <<"S","i">>, <<"P">>, <<"S">>, <<"C","l">>, <<"A","r">>, <<"K">>, <<"C","a">>, 
     <<"S","c">>, <<"T","i">>, <<"V">>, <<"C","r">>, <<"M","n">>, <<"F","e">>, 
     <<"C","o">>, <<"N","i">>, <<"C","u">>, <<"Z","n">>, <<"G","a">>, <<"G","e">>, 
     <<"A","s">>, <<"S","e">>, <<"B","r">>, <<"K","r">>, <<"R","b">>, <<"S","r">>, 
     <<"Y">>, <<"Z","r">>, <<"N","b">>, <<"M","o">>, <<"T","c">>, <<"R","u">>, 
     <<"R","h">>, <<"P","d">>, <<"A","g">>, <<"C","d">>, <<"I","n">>, <<"S","n">>, 
     <<"S","b">>, <<"T","e">>, <<"I">>, <<"X","e">>, <<"C","s">>, <<"B","a">>, 
     <<"L","a">>, <<"C","e">>, <<"P","r">>, <<"N","d">>, <<"P","m">>, <<"S","m">>, 
     <<"E","u">>, <<"G","d">>, <<"T","b">>, <<"D","y">>, <<"H","o">>, <<"E","r">>, 
     <<"T","m">>, <<"Y","b">>, <<"L","u">>, <<"H","f">>, <<"T","a">>, <<"W">>, 
     <<"R","e">>, <<"O","s">>, <<"I","r">>, <<"P","t">>, <<"A","u">>, <<"H","g">>, 
     <<"T","l">>, <<"P","b">>, <<"B","i">>, <<"P","o">>, <<"A","t">>, <<"R","n">>, 
     <<"F","r">>, <<"R","a">>, <<"A","c">>, <<"T","h">>, <<"P","a">>, <<"U">>, 
     <<"N","p">>, <<"P","u">>, <<"A","m">>, <<"C","m">>, <<"B","k">>, <<"C","f">>, 
     <<"E","s">>, <<"F","m">>, <<"M","d">>, <<"N","o">>, <<"L","r">>, <<"R","f">>, 
     <<"D","b">>, <<"S","g">>, <<"B","h">>, <<"H","s">>, <<"M","t">>, <<"D","s">>, 
     <<"R","g">>, <<"U","u","b">> >>

TransResult(kind, exc, val) == [kind |-> kind, exc |-> exc, val |-> val]

(* list(elements.values()).index(element): 0 when the symbol is not in the table *)
ElementIndex(element) ==
  IF \E z \in 1..Len(elements) : elements[z] = element
  THEN CHOOSE z \in 1..Len(elements) : elements[z] = element
  ELSE 0

(* name[i:] of Python, i possibly negative *)
PySuffix(name, i) ==
  IF i >= 0 THEN SubSeq(name, i + 1, Len(name))
  ELSE IF -i >= Len(name) THEN name
  ELSE SubSeq(name, Len(name) + i + 1, Len(name))

(* "while name[i:].isdigit(): i -= 1": the final i, or -Len(name)-2 when the *)
(* loop never ends (the whole name is digits)                                *)
RECURSIVE scan_digits(_, _)
scan_digits(name, i) ==
  IF i < -Len(name) - 1 THEN i
  ELSE IF isdigit(PySuffix(name, i)) THEN scan_digits(name, i - 1)
  ELSE i

(* the branch "ZAI is given -> name" *)
translate_zai(name) ==
  LET last == name[Len(name)]
  IN IF last \notin {"0", "1"} THEN TransResult("error", "UnboundLocalError", <<>>)
     ELSE LET ZA == IF last = "0" THEN int(name) \div 10 ELSE (int(name) - 1) \div 10
              suffix == IF last = "0" THEN <<>> ELSE <<"m">>
              Z == ZA \div 1000
              A == ZA - Z * 1000
          IN IF Z \notin 1..Len(elements) THEN TransResult("error", "KeyError", <<>>)
             ELSE TransResult("ok", "",
                    elements[Z] \o (IF A = 0 THEN <<"n", "a", "t">> ELSE str(A)) \o suffix)

(* the branch "name is given -> ZAI" *)
translate_name(name0) ==
  IF name0 = <<>> THEN TransResult("error", "IndexError", <<>>)
  ELSE LET isomer == name0[Len(name0)] = "m"
           name == IF isomer THEN SubSeq(name0, 1, Len(name0) - 1) ELSE name0
           I == IF isomer THEN <<"1">> ELSE <<"0">>
           i == scan_digits(name, Len(name) - 1)
       IN IF i < -Len(name) - 1 THEN TransResult("diverges", "", <<>>)
          ELSE LET A == PySuffix(name, i + 1)
                   element == SubSeq(name, 1, i + 1)
               IN IF ElementIndex(element) = 0 THEN TransResult("error", "ValueError", <<>>)
                  ELSE TransResult("ok", "", str(ElementIndex(element)) \o A \o I)

(* translate(name), name already str(name) *)
translate(name) == IF isdigit(name) THEN translate_zai(name) ELSE translate_name(name)

----------------------------------------------------------------------------
(* Input domains *)

MaxNuclides == 2
MaxMerge == 2
MaxA == 300

(* "a", "ab", "e-acute", "m e-acute": the last two are longer in UTF-8 than in characters *)
Names == {<<97>>, <<97, 98>>, <<233>>, <<109, 233>>}

DistinctKeys(d) == \A i, j \in 1..Len(d) : d[i][1] = d[j][1] => i = j

DictsOver(keys, values, n) ==
  {d \in UNION {[1..k -> keys \X values] : k \in 0..n} : DistinctKeys(d)}

(* nuclide dictionaries as Material.read builds them: the key is str(ZAI) *)
NuclideDicts == DictsOver({str(10010), str(922350)}, {1, 2}, MaxNuclides)

CodecMaterials ==
  {Material(n, g, d, Len(nuc), a, m, b, nuc) :
     n \in Names, g \in {0, 1}, d \in {0, 2}, a \in {1, 2}, m \in {0, 1}, b \in {0, 2},
     nuc \in NuclideDicts}

----------------------------------------------------------------------------
(* The codec on its own: a Material, its block, the Material read from it *)

NoRead == ReadResult("none", "", NoMaterial, 0)

CodecInit == cpc = "made" /\ cmat \in CodecMaterials /\ cblock = <<>> /\ cread = NoRead
CodecIdle == cpc = "idle" /\ cmat = NoMaterial /\ cblock = <<>> /\ cread = NoRead

Material_to_binary ==
  /\ cpc = "made"
  /\ cblock' = to_binary(cmat)
  /\ cpc' = "packed"
  /\ UNCHANGED <<cmat, cread, storeVars, transVars, mergeVars>>

Material_read ==
  /\ cpc = "packed"
  /\ cread' = read(cblock, 0)
  /\ cpc' = "read"
  /\ UNCHANGED <<cmat, cblock, storeVars, transVars, mergeVars>>

CodecNext == Material_to_binary \/ Material_read

----------------------------------------------------------------------------
(* translate on its own: a ZAI, its name, the name translated back *)

NoTrans == TransResult("none", "", <<>>)
ZAI(Z, A, I) == (Z * 1000 + A) * 10 + I

TransInit ==
  /\ tpc = "zai"
  /\ tzai \in {ZAI(Z, A, I) : Z \in 1..Len(elements), A \in 0..MaxA, I \in {0, 1}}
  /\ tname = NoTrans
  /\ tback = NoTrans
TransIdle == tpc = "idle" /\ tzai = 0 /\ tname = NoTrans /\ tback = NoTrans

(* translate(ZAI) *)
translate_to_name ==
  /\ tpc = "zai"
  /\ tname' = translate(str(tzai))
  /\ tpc' = "name"
  /\ UNCHANGED <<tzai, tback, storeVars, codecVars, mergeVars>>

(* translate(translate(ZAI)) *)
translate_back ==
  /\ tpc = "name"
  /\ tname.kind = "ok"
  /\ tback' = translate(tname.val)
  /\ tpc' = "back"
  /\ UNCHANGED <<tzai, tname, storeVars, codecVars, mergeVars>>

TransNext == translate_to_name \/ translate_back

----------------------------------------------------------------------------
(* The script's merge: materials3 = {**materials2, **materials1} *)

RECURSIVE dict_update(_, _)
dict_update(d, e) ==
  IF e = <<>> THEN d
  ELSE dict_update(DictSet(d, Head(e)[1], Head(e)[2]), Tail(e))

(* a merge in which the source supplied first wins *)
dict_merge_left(a, b) == dict_update(dict_update(<<>>, b), a)

(* {**a, **b} *)
dict_merge(a, b) == dict_update(dict_update(<<>>, a), b)

MergeMaterials == {Material(<<109>>, 0, 0, 0, a, 0, 0, <<>>) : a \in {1, 2}}
MergeDicts == DictsOver({<<109, 49>>, <<109, 50>>, <<109, 51>>}, MergeMaterials, MaxMerge)

MergeInit ==
  /\ mpc = "sources"
  /\ materials1 \in MergeDicts
  /\ materials2 \in MergeDicts
  /\ materials3 = <<>>
MergeIdle == mpc = "idle" /\ materials1 = <<>> /\ materials2 = <<>> /\ materials3 = <<>>

merge ==
  /\ mpc = "sources"
  /\ materials3' = dict_merge(materials2, materials1)
  /\ mpc' = "merged"
  /\ UNCHANGED <<materials1, materials2, storeVars, codecVars, transVars>>

MergeNext == merge

----------------------------------------------------------------------------
(* class Restart_File *)

MaxRecords == 3
MaxSnapshots == 3

SeqsUpTo(S, n) == UNION {[1..k -> S] : k \in 0..n}

(* The records of an input file: names "a" and "b"; (bu_global, bu_days) is  *)
(* (0.0, 0.0), (0.0, 1.0) or (1.0, 1.0); one nuclide when bu_days is 1.0     *)
StreamRecords ==
  {Material(n, t[1], t[2], IF t[2] = 1 THEN 1 ELSE 0, 1, 2, t[1],
            IF t[2] = 1 THEN <<<<str(10010), 2>>>> ELSE <<>>) :
     n \in {<<97>>, <<98>>}, t \in {<<0, 0>>, <<0, 1>>, <<1, 1>>}}

(* One record as Material.read expects it in the file: the length of the name *)
(* in bytes, the name, bu_global, bu_days, nnuc, adens, mdens, bu, the pairs  *)
record_bytes(m) ==
  pack_q(Len(encode(m.name))) \o encode(m.name)
  \o pack_d(m.bu_global) \o pack_d(m.bu_days) \o pack_q(m.nnuc)
  \o pack_d(m.adens) \o pack_d(m.mdens) \o pack_d(m.bu)
  \o nuclides_to_binary(m.nuclides)

stream_bytes(rs) == Concat([i \in 1..Len(rs) |-> record_bytes(rs[i])])

(* The snapshots and materials a caller hands to the constructor *)
A0 == Material(<<97>>, 0, 0, 0, 1, 1, 0, <<>>)
A1 == Material(<<97>>, 1, 1, 1, 1, 1, 1, <<<<str(922350), 1>>>>)
B0 == Material(<<98>>, 0, 0, 0, 2, 2, 0, <<>>)
SnapshotChoices ==
  {<<>>, <<<<A0.name, A0>>>>, <<<<A1.name, A1>>>>,
   <<<<A0.name, A0>>, <<B0.name, B0>>>>, <<<<B0.name, B0>>, <<A1.name, A1>>>>}
SnapshotsChoices == DictsOver({0, 1, 2}, SnapshotChoices, MaxSnapshots)

Result(op, args, kind, val) == [op |-> op, args |-> args, kind |-> kind, val |-> val]
NoResult == Result("", <<>>, "", <<>>)

StoreInit ==
  /\ pc = "new" /\ path_to_file = None /\ snapshots = <<>> /\ burnups = None
  /\ times = None /\ current_step = -1 /\ disk = None /\ stream = <<>> /\ pos = 0
  /\ ret = NoResult
StoreIdle ==
  /\ pc = "unused" /\ path_to_file = None /\ snapshots = <<>> /\ burnups = None
  /\ times = None /\ current_step = -1 /\ disk = None /\ stream = <<>> /\ pos = 0
  /\ ret = NoResult

Others == <<codecVars, transVars, mergeVars>>

(* a constructor that asks for at least one option, not for exactly one *)
some_option(test) == Cardinality({i \in 1..Len(test) : test[i]}) >= 1

(* "if sum(test) != 1: raise Exception(...)": whether __init__ goes on *)
one_option(test) == Cardinality({i \in 1..Len(test) : test[i]}) = 1

(* Restart_File.__init__(path_to_file, snapshots, materials) *)
Restart_File_init ==
  /\ pc = "new"
  /\ \E path \in {None, Some("in")},
     snaps \in {None} \cup {Some(s) : s \in SnapshotsChoices},
     mats \in {None} \cup {Some(s) : s \in SnapshotChoices} :
       LET test == <<~IsNone(path), ~IsNone(snaps), ~IsNone(mats)>>
           args == <<path, snaps, mats>>
       IN /\ IF ~one_option(test)
             THEN /\ pc' = "invalid"
                  /\ ret' = Result("__init__", args, "Exception", <<>>)
                  /\ UNCHANGED <<path_to_file, snapshots>>
             ELSE /\ pc' = "idle"
                  /\ ret' = Result("__init__", args, "ok", <<>>)
                  /\ path_to_file' = IF test[1] THEN path ELSE path_to_file
                  /\ snapshots' = IF test[2] THEN Val(snaps)
                                  ELSE IF test[3] THEN DictSet(<<>>, 0, Val(mats))
                                  ELSE <<>>
          /\ UNCHANGED <<burnups, times, current_step, disk, stream, pos, Others>>

(* the caller's "restart.path_to_file = path" on a store made from snapshots *)
(* or materials: the path of a file to write, which does not exist yet      *)
set_path ==
  /\ pc = "idle"
  /\ IsNone(path_to_file)
  /\ path_to_file' = Some("out")
  /\ ret' = Result("set_path", <<>>, "ok", <<>>)
  /\ UNCHANGED <<pc, snapshots, burnups, times, current_step, disk, stream, pos, Others>>

(* read_restart up to the loop: the dictionaries are reset and the file is   *)
(* opened. The input file "in" holds the records of some stream (fixed when  *)
(* it is first opened); the file "out" exists once write_binary has written  *)
(* it                                                                        *)
read_restart_open ==
  /\ pc = "idle"
  /\ ~IsNone(path_to_file)
  /\ snapshots' = <<>>
  /\ burnups' = Some(<<>>)
  /\ times' = Some(<<>>)
  /\ current_step' = -1
  /\ pos' = 0
  /\ IF ~IsNone(disk)
     THEN pc' = "reading" /\ ret' = NoResult /\ UNCHANGED <<disk, stream>>
     ELSE IF Val(path_to_file) = "out"
     THEN /\ pc' = "idle"
          /\ ret' = Result("read_restart", <<>>, "FileNotFoundError", <<>>)
          /\ UNCHANGED <<disk, stream>>
     ELSE /\ pc' = "reading"
          /\ ret' = NoResult
          /\ \E rs \in SeqsUpTo(StreamRecords, MaxRecords) :
               stream' = rs /\ disk' = Some(stream_bytes(rs))
  /\ UNCHANGED <<path_to_file, Others>>

(* the records of a file that ends inside its last record, that one included *)
MaxCutRecords == 2

(* read_restart up to the loop on an input file that ends inside its last   *)
(* record: the file holds the bytes of the records of stream but for the    *)
(* last one, of which it holds the first c bytes, at least one and not all  *)
read_restart_open_truncated ==
  /\ pc = "idle"
  /\ ~IsNone(path_to_file) /\ Val(path_to_file) = "in"
  /\ IsNone(disk)
  /\ snapshots' = <<>>
  /\ burnups' = Some(<<>>)
  /\ times' = Some(<<>>)
  /\ current_step' = -1
  /\ pos' = 0
  /\ pc' = "reading"
  /\ ret' = NoResult
  /\ \E rs \in SeqsUpTo(StreamRecords, MaxCutRecords) \ {<<>>} :
       \E c \in 1..(Len(record_bytes(rs[Len(rs)])) - 1) :
         /\ stream' = rs
         /\ disk' = Some(stream_bytes(SubSeq(rs, 1, Len(rs) - 1))
                         \o SubSeq(record_bytes(rs[Len(rs)]), 1, c))
  /\ UNCHANGED <<path_to_file, Others>>

LastKey(d) == d[Len(d)][1]

(* a loop that compares the record with the burnup of the first snapshot,    *)
(* not of the last one                                                       *)
new_snapshot_first(bs_, mat_) ==
  The({Len(bs) = 0 \/ mat.bu_global # DictGet(bs, bs[1][1]) : bs \in {bs_}, mat \in {mat_}})

(* "len(self._burnups) == 0 or mat.bu_global !=                              *)
(*  self._burnups[list(self._burnups.keys())[-1]]"                           *)
new_snapshot(bs_, mat_) ==
  The({Len(bs) = 0 \/ mat.bu_global # DictGet(bs, LastKey(bs)) : bs \in {bs_}, mat \in {mat_}})

(* the rest of a turn of the loop once Material.read has returned r: the   *)
(* Material is stored (kind "ok"), or the loop ends at the end of the file   *)
(* ("eof"), or the exception of Material.read goes on ("error")              *)
store_material(r_, snaps_, bs_, ts_, cs_) ==
  The({IF r.kind # "ok"
       THEN [kind |-> r.kind, exc |-> r.exc, pos |-> r.pos, snapshots |-> snaps,
             burnups |-> bs, times |-> ts, current_step |-> cs]
       ELSE The({[kind |-> "ok", exc |-> "", pos |-> r.pos,
                  snapshots |->
                    The({DictSet(opened, step, DictSet(DictGet(opened, step), r.mat.name, r.mat))
                         : step \in {IF new THEN cs + 1 ELSE cs},
                           opened \in {IF new THEN DictSet(snaps, cs + 1, <<>>) ELSE snaps}}),
                  burnups |-> IF new THEN DictSet(bs, cs + 1, r.mat.bu_global) ELSE bs,
                  times |-> IF new THEN DictSet(ts, cs + 1, r.mat.bu_days) ELSE ts,
                  current_step |-> IF new THEN cs + 1 ELSE cs]
                 : new \in {new_snapshot(bs, r.mat)}})
       : r \in {r_}, snaps \in {snaps_}, bs \in {bs_}, ts \in {ts_}, cs \in {cs_}})

(* one turn of the loop of read_restart on the file at offset p *)
loop_turn(file, p, snaps, bs, ts, cs) == store_material(read(file, p), snaps, bs, ts, cs)

(* one turn of the loop, then the next turn, or the return of read_restart, *)
(* or the exception of Material.read leaving read_restart                   *)
read_restart_step ==
  /\ pc = "reading"
  /\ \E t \in {loop_turn(Val(disk), pos, snapshots, Val(burnups), Val(times), current_step)} :
        /\ pos' = t.pos
        /\ snapshots' = t.snapshots
        /\ burnups' = Some(t.burnups)
        /\ times' = Some(t.times)
        /\ current_step' = t.current_step
        /\ pc' = IF t.kind = "ok" THEN "reading" ELSE "idle"
        /\ ret' = IF t.kind = "ok" THEN ret
                  ELSE Result("read_restart", <<>>,
                              IF t.kind = "eof" THEN "ok" ELSE t.exc, <<>>)
  /\ UNCHANGED <<path_to_file, disk, stream, Others>>

(* the sentinel of extract_snapshot and extract_material: *)
(* "if snapshot_id == -1: snapshot_id = list(self.snapshots.keys())[-1]"; *)
(* <<>> when the list is empty (IndexError)                               *)
resolve(snapshot_id) ==
  IF snapshot_id # -1 THEN Some(snapshot_id)
  ELSE IF snapshots = <<>> THEN None
  ELSE Some(LastKey(snapshots))

SnapshotIds == -1..MaxRecords
MaterialNames == {<<97>>, <<98>>}

(* extract_snapshot(snapshot_id) *)
extract_snapshot ==
  /\ pc = "idle"
  /\ \E snapshot_id \in SnapshotIds :
       LET id == resolve(snapshot_id)
           call(kind, val) == Result("extract_snapshot", <<snapshot_id>>, kind, val)
       IN /\ ret' = IF IsNone(id) THEN call("IndexError", <<>>)
                    ELSE IF ~DictHas(snapshots, Val(id)) THEN call("KeyError", <<>>)
                    ELSE call("ok", DictGet(snapshots, Val(id)))
          /\ pc' = "returned"
          /\ UNCHANGED <<path_to_file, snapshots, burnups, times, current_step, disk, stream,
                         pos, Others>>

(* extract_material(material_name, snapshot_id) *)
extract_material ==
  /\ pc = "idle"
  /\ \E material_name \in MaterialNames, snapshot_id \in SnapshotIds :
       LET id == resolve(snapshot_id)
           call(kind, val) == Result("extract_material", <<material_name, snapshot_id>>, kind, val)
       IN /\ ret' = IF IsNone(id) THEN call("IndexError", <<>>)
                    ELSE IF ~DictHas(snapshots, Val(id)) THEN call("KeyError", <<>>)
                    ELSE IF ~DictHas(DictGet(snapshots, Val(id)), material_name)
                    THEN call("KeyError", <<>>)
                    ELSE call("ok", Some(DictGet(DictGet(snapshots, Val(id)), material_name)))
          /\ pc' = "returned"
          /\ UNCHANGED <<path_to_file, snapshots, burnups, times, current_step, disk, stream,
                         pos, Others>>

(* a loop of follow_material without the try: it ends at the first snapshot *)
(* that lacks the material                                                  *)
RECURSIVE follow_until_missing(_, _, _)
follow_until_missing(snaps, material_name, states) ==
  IF snaps = <<>> \/ ~DictHas(Head(snaps)[2], material_name) THEN states
  ELSE follow_until_missing(Tail(snaps), material_name,
         DictSet(states, Head(snaps)[1], DictGet(Head(snaps)[2], material_name)))

(* the loop of follow_material over the snapshots left to visit *)
RECURSIVE follow(_, _, _)
follow(snaps, material_name, states) ==
  IF snaps = <<>> THEN states
  ELSE follow(Tail(snaps), material_name,
              IF DictHas(Head(snaps)[2], material_name)
              THEN DictSet(states, Head(snaps)[1], DictGet(Head(snaps)[2], material_name))
              ELSE states)

(* follow_material(material_name) *)
follow_material ==
  /\ pc = "idle"
  /\ \E material_name \in MaterialNames :
          /\ ret' = Result("follow_material", <<material_name>>, "ok",
                           follow(snapshots, material_name, <<>>))
          /\ pc' = "returned"
          /\ UNCHANGED <<path_to_file, snapshots, burnups, times, current_step, disk, stream,
                         pos, Others>>

RECURSIVE materials_to_binary(_, _)
materials_to_binary(s, names) ==
  IF names = <<>> THEN <<>>
  ELSE to_binary(DictGet(s, Head(names))) \o materials_to_binary(s, Tail(names))

(* the loop of write_binary over the selected snapshots ss: material_names, *)
(* once None has been replaced, keeps its value for the snapshots after     *)
RECURSIVE write_loop(_, _, _)
write_loop(ss, material_names, contents) ==
  IF ss = <<>> THEN [ok |-> TRUE, contents |-> contents]
  ELSE LET s == Head(ss)
           names == IF IsNone(material_names) THEN DictKeys(s) ELSE Val(material_names)
       IN IF \E i \in 1..Len(names) : ~DictHas(s, names[i])
          THEN [ok |-> FALSE, contents |-> contents]
          ELSE write_loop(Tail(ss), Some(names), contents \o materials_to_binary(s, names))

SnapshotIdLists == {None, Some(<<1>>), Some(<<1, 0>>)}
MaterialNameLists == {None, Some(<<<<97>>>>), Some(<<<<98>>, <<97>>>>)}

(* write_binary(snapshot_ids, material_names) *)
write_binary ==
  /\ pc = "idle"
  /\ \E snapshot_ids \in SnapshotIdLists, material_names \in MaterialNameLists :
       LET ids == IF IsNone(snapshot_ids) THEN DictKeys(snapshots) ELSE Val(snapshot_ids)
           call(kind) == Result("write_binary", <<snapshot_ids, material_names>>, kind, <<>>)
           w == write_loop([i \in 1..Len(ids) |-> DictGet(snapshots, ids[i])], material_names, <<>>)
       IN /\ pc' = "returned"
          /\ IF IsNone(path_to_file)
             THEN ret' = call("AttributeError") /\ UNCHANGED disk
             ELSE IF \E i \in 1..Len(ids) : ~DictHas(snapshots, ids[i])
             THEN ret' = call("KeyError") /\ UNCHANGED disk
             ELSE IF ~w.ok
             THEN ret' = call("KeyError") /\ UNCHANGED disk
             ELSE ret' = call("ok") /\ disk' = Some(w.contents)
          /\ UNCHANGED <<path_to_file, snapshots, burnups, times, current_step, stream, pos,
                         Others>>

----------------------------------------------------------------------------
(* A record of a file decoded by Material.read, the Material encoded again  *)
(* by to_binary, and that block decoded again                               *)

(* The records: in the file the nuclides are a sequence of pairs, in which   *)
(* an identifier may occur more than once; nnuc is the number of pairs       *)
WireRecords ==
  {Material(n, g, 0, Len(ps), 1, 2, g, ps) :
     n \in {<<97>>, <<97, 98>>}, g \in {0, 1},
     ps \in SeqsUpTo({str(10010), str(922350)} \X {1, 2}, MaxNuclides)}

RecodeInit ==
  /\ cpc = "record" /\ cmat = NoMaterial /\ cread = NoRead
  /\ cblock \in {record_bytes(w) : w \in WireRecords}

(* mat = Material(); mat.read(file) *)
Record_read ==
  /\ cpc = "record"
  /\ cread' = read(cblock, 0)
  /\ cpc' = "decoded"
  /\ UNCHANGED <<cmat, cblock, storeVars, transVars, mergeVars>>

(* mat.to_binary() of the Material that was read *)
Record_to_binary ==
  /\ cpc = "decoded" /\ cread.kind = "ok"
  /\ cmat' = cread.mat
  /\ cblock' = to_binary(cread.mat)
  /\ cpc' = "encoded"
  /\ UNCHANGED <<cread, storeVars, transVars, mergeVars>>

(* Material().read(file) of the block to_binary made *)
Record_read_again ==
  /\ cpc = "encoded"
  /\ cread' = read(cblock, 0)
  /\ cpc' = "decoded again"
  /\ UNCHANGED <<cmat, cblock, storeVars, transVars, mergeVars>>

RecodeNext == Record_read \/ Record_to_binary \/ Record_read_again

Init == StoreInit /\ CodecIdle /\ TransIdle /\ MergeIdle

Next ==
  \/ Restart_File_init
  \/ set_path
  \/ read_restart_open
  \/ read_restart_step
  \/ extract_snapshot
  \/ extract_material
  \/ follow_material
  \/ write_binary

Spec == Init /\ [][Next]_vars

(* Construction and read_restart alone. The program is sequential: once it   *)
(* is in the loop of read_restart it goes on to the next turn                *)
NextRead == Restart_File_init \/ set_path \/ read_restart_open \/ read_restart_step
SpecRead == Init /\ [][NextRead]_vars /\ WF_vars(read_restart_step)

(* Construction and read_restart of an input file that is complete or ends  *)
(* inside its last record                                                   *)
NextTruncated ==
  \/ Restart_File_init
  \/ read_restart_open
  \/ read_restart_open_truncated
  \/ read_restart_step
SpecTruncated == Init /\ [][NextTruncated]_vars


InitCodec == CodecInit /\ StoreIdle /\ TransIdle /\ MergeIdle
InitTranslate == TransInit /\ StoreIdle /\ CodecIdle /\ MergeIdle
InitMerge == MergeInit /\ StoreIdle /\ CodecIdle /\ TransIdle

SpecCodec == InitCodec /\ [][CodecNext]_vars
SpecTranslate == InitTranslate /\ [][TransNext]_vars
SpecMerge == InitMerge /\ [][MergeNext]_vars

InitRecode == RecodeInit /\ StoreIdle /\ TransIdle /\ MergeIdle
SpecRecode == InitRecode /\ [][RecodeNext]_vars
----------------------------------------------------------------------------
(* Claims *)

SameMaterial(x, y) ==
  /\ x.name = y.name
  /\ x.bu_global = y.bu_global /\ x.bu_days = y.bu_days
  /\ x.adens = y.adens /\ x.mdens = y.mdens /\ x.bu = y.bu
  /\ DictItems(x.nuclides) = DictItems(y.nuclides)

(* C1: the block to_binary makes of a Material is read back by Material.read *)
(* without an error, as a Material with the same name, scalar fields and     *)
(* nuclide entries, also when the name has more UTF-8 bytes than characters. *)
C1_RoundTrip == cpc = "read" => cread.kind = "ok" /\ SameMaterial(cread.mat, cmat)

MassNumber(zai) == (zai \div 10) % 1000

(* C2: for Z in 1..112, A in 1..300 and I in 0..1, translating the ZAI       *)
(* (Z*1000 + A)*10 + I to a name succeeds, and translating that name back    *)
(* gives the ZAI again.                                                      *)
C2_TranslateRoundTrip ==
  MassNumber(tzai) >= 1 =>
    /\ tpc = "name" => tname.kind = "ok"
    /\ tpc = "back" => tback.kind = "ok" /\ isdigit(tback.val) /\ int(tback.val) = tzai

(* C7: the merged dictionary has the keys of both sources, each with the     *)
(* Material of the source supplied last among those that hold the key        *)
(* (materials1 is supplied after materials2), and the merge leaves the       *)
(* sources as they were.                                                     *)
C7_MergeRightBiased ==
  /\ [](mpc = "merged" =>
         /\ DictKeySet(materials3) = DictKeySet(materials2) \cup DictKeySet(materials1)
         /\ \A k \in DictKeySet(materials3) :
              DictGet(materials3, k) =
                IF DictHas(materials1, k) THEN DictGet(materials1, k)
                ELSE DictGet(materials2, k))
  /\ [][materials1' = materials1 /\ materials2' = materials2]_vars

(* C7 witness: {m1: X} then {m1: Y, m2: Z} merged to {m1: Y, m2: Z} *)
C7_Witness ==
  LET X == Material(<<109>>, 0, 0, 0, 1, 0, 0, <<>>)
      Y == Material(<<109>>, 0, 0, 0, 2, 0, 0, <<>>)
  IN /\ mpc = "merged"
     /\ materials2 = <<<<(<<109, 49>>), X>>>>
     /\ materials1 = <<<<(<<109, 49>>), Y>>, <<(<<109, 50>>), X>>>>
     /\ materials3 = <<<<(<<109, 49>>), Y>>, <<(<<109, 50>>), X>>>>

----------------------------------------------------------------------------
(* Claims about read_restart *)

(* the maximal runs of consecutive records of equal bu_global, in order *)
RECURSIVE RunsOf(_)
RunsOf(rs) ==
  IF rs = <<>> THEN <<>>
  ELSE LET front == SubSeq(rs, 1, Len(rs) - 1)
           r == rs[Len(rs)]
           runs == RunsOf(front)
       IN IF front # <<>> /\ front[Len(front)].bu_global = r.bu_global
          THEN [runs EXCEPT ![Len(runs)] = Append(@, r)]
          ELSE Append(runs, <<r>>)

LastOfName(run, name) ==
  run[CHOOSE i \in 1..Len(run) :
        run[i].name = name /\ \A j \in (i + 1)..Len(run) : run[j].name # name]

(* read_restart has returned, having read the records of stream from the file *)
ReadDone ==
  /\ pc = "idle" /\ ret.op = "read_restart"
  /\ ~IsNone(disk) /\ Val(disk) = stream_bytes(stream)

(* C3: read_restart of a file of well-formed records succeeds with snapshots *)
(* 0..k-1, one per maximal run of records of equal bu_global: snapshot i     *)
(* holds the names of run i, each with the last record of that name in the   *)
(* run, and its recorded bu_global and bu_days are those of the run's first  *)
(* record.                                                                   *)
C3_AssemblerResult ==
  ReadDone =>
    LET runs == RunsOf(stream)
    IN /\ ret.kind = "ok"
       /\ DictKeys(snapshots) = [i \in 1..Len(runs) |-> i - 1]
       /\ DictKeys(Val(burnups)) = DictKeys(snapshots)
       /\ DictKeys(Val(times)) = DictKeys(snapshots)
       /\ \A i \in 1..Len(runs) :
            LET s == DictGet(snapshots, i - 1)
            IN /\ DictKeySet(s) = {runs[i][j].name : j \in 1..Len(runs[i])}
               /\ \A n \in DictKeySet(s) : DictGet(s, n) = LastOfName(runs[i], n)
               /\ DictGet(Val(burnups), i - 1) = runs[i][1].bu_global
               /\ DictGet(Val(times), i - 1) = runs[i][1].bu_days

(* C3 witness: three records with bu_global 0.0, 0.0, 1.0 and the names a, b, *)
(* a have been read into two snapshots of two and one materials               *)
C3_Witness ==
  /\ ReadDone /\ ret.kind = "ok"
  /\ Len(stream) = 3
  /\ stream[1].bu_global = 0 /\ stream[2].bu_global = 0 /\ stream[3].bu_global = 1
  /\ stream[1].name = <<97>> /\ stream[2].name = <<98>> /\ stream[3].name = <<97>>
  /\ Len(snapshots) = 2
  /\ Len(DictGet(snapshots, 0)) = 2 /\ Len(DictGet(snapshots, 1)) = 1

ReadOk == pc = "idle" /\ ret.op = "read_restart" /\ ret.kind = "ok"

(* C8: read_restart of a file of complete records comes to an end; it leaves *)
(* the loop exactly when it is at the end of the file, which is the end of a *)
(* record, and then it has succeeded; an empty file gives no snapshot.       *)
C8_Termination ==
  /\ (pc = "reading") ~> ReadOk
  /\ [][pc = "reading" /\ Val(disk) = stream_bytes(stream) =>
          /\ pc' # "reading" <=> pos = Len(Val(disk))
          /\ pc' # "reading" => ret'.op = "read_restart" /\ ret'.kind = "ok"]_vars
  /\ [](ReadDone /\ stream = <<>> => ret.kind = "ok" /\ snapshots = <<>>)

(* C8 witness: read_restart has returned from a file of two records *)
C8_Witness == ReadDone /\ ret.kind = "ok" /\ Len(stream) = 2 /\ pos = Len(Val(disk))

(* C10: in every state of a store that read_restart fills, each Material of  *)
(* snapshot i has the bu_global and the bu_days recorded for snapshot i.     *)
C10_SnapshotConsistency ==
  ~IsNone(burnups) =>
    \A k \in 1..Len(snapshots) :
      LET i == snapshots[k][1]
          s == snapshots[k][2]
      IN \A j \in 1..Len(s) :
           /\ s[j][2].bu_global = DictGet(Val(burnups), i)
           /\ s[j][2].bu_days = DictGet(Val(times), i)

----------------------------------------------------------------------------
(* Claims about the constructor *)

Given(args) == {i \in 1..3 : ~IsNone(args[i])}

(* C9: the constructor succeeds exactly when one of path_to_file, snapshots, *)
(* materials is given, and raises otherwise; from materials alone the store  *)
(* is the one snapshot 0 with that dictionary; from snapshots alone it is    *)
(* that dictionary of snapshots.                                             *)
C9_Construction ==
  ret.op = "__init__" =>
    /\ ret.kind = "ok" <=> Cardinality(Given(ret.args)) = 1
    /\ ret.kind = "ok" => pc = "idle"
    /\ ret.kind # "ok" => ret.kind = "Exception" /\ pc = "invalid"
    /\ Given(ret.args) = {3} => snapshots = <<<<0, Val(ret.args[3])>>>>
    /\ Given(ret.args) = {2} => snapshots = Val(ret.args[2])

(* C9 witness: a store has been made from the materials a and b alone *)
C9_Witness ==
  /\ ret.op = "__init__" /\ ret.kind = "ok" /\ Given(ret.args) = {3}
  /\ Len(Val(ret.args[3])) = 2
  /\ snapshots = <<<<0, Val(ret.args[3])>>>>

----------------------------------------------------------------------------
(* Claims about the queries and write_binary *)

(* the call that has just returned *)
Returned(op) == pc = "returned" /\ ret.op = op

(* C6: follow_material(name) does not fail; the keys of its result are the   *)
(* indices of the snapshots that hold a material called name, each with that *)
(* snapshot's Material of that name; the store is left as it was.            *)
C6_FollowMaterial ==
  [][pc = "idle" /\ pc' = "returned" /\ ret'.op = "follow_material" =>
       LET name == ret'.args[1]
           holding == {i \in DictKeySet(snapshots) : DictHas(DictGet(snapshots, i), name)}
       IN /\ ret'.kind = "ok"
          /\ DictKeySet(ret'.val) = holding
          /\ \A i \in holding : DictGet(ret'.val, i) = DictGet(DictGet(snapshots, i), name)
          /\ snapshots' = snapshots]_vars

(* C6 witness: over {0: {a: A0}, 1: {}, 2: {a: A1}}, follow_material("a") has *)
(* returned {0: A0, 2: A1}                                                   *)
C6_Witness ==
  /\ Returned("follow_material") /\ ret.args = <<A0.name>> /\ ret.kind = "ok"
  /\ snapshots = <<<<0, <<<<A0.name, A0>>>>>>, <<1, <<>>>>, <<2, <<<<A1.name, A1>>>>>>>>
  /\ ret.val = <<<<0, A0>>, <<2, A1>>>>

(* the index an extraction looks up: -1 stands for the highest index of the *)
(* store, <<>> when the store has no snapshot                               *)
Highest(S) == CHOOSE k \in S : \A j \in S : j <= k
Resolved(snapshot_id) ==
  IF snapshot_id # -1 THEN Some(snapshot_id)
  ELSE IF snapshots = <<>> THEN None
  ELSE Some(Highest(DictKeySet(snapshots)))

(* C5: extract_snapshot(index) and extract_material(name, index) look up the *)
(* highest index of the store when index is -1 and index itself otherwise;   *)
(* they return the stored snapshot or material when it is there, and fail    *)
(* with a KeyError, the NotFound of this store, and in no other way, when    *)
(* the snapshot or the material is absent, also for -1 on a store without    *)
(* snapshots; the store is left as it was.                                   *)
C5_SentinelNotFound ==
  [][pc = "idle" /\ pc' = "returned"
       /\ ret'.op \in {"extract_snapshot", "extract_material"} =>
       LET id == Resolved(ret'.args[Len(ret'.args)])
           there == ~IsNone(id) /\ DictHas(snapshots, Val(id))
           s == DictGet(snapshots, Val(id))
       IN /\ snapshots' = snapshots
          /\ ret'.kind \in {"ok", "KeyError"}
          /\ IF ret'.op = "extract_snapshot"
             THEN /\ ret'.kind = "ok" <=> there
                  /\ ret'.kind = "ok" => ret'.val = s
             ELSE /\ ret'.kind = "ok" <=> there /\ DictHas(s, ret'.args[1])
                  /\ ret'.kind = "ok" => ret'.val = Some(DictGet(s, ret'.args[1]))]_vars

(* the arguments of a write_binary: the indices it selects, and the names it *)
(* selects in the snapshot s                                                 *)
SelectedIds(args) == IF IsNone(args[1]) THEN DictKeys(snapshots) ELSE Val(args[1])
SelectedNames(args, s) == IF IsNone(args[2]) THEN DictKeys(s) ELSE Val(args[2])
Selectable(args) ==
  LET ids == SelectedIds(args)
  IN \A i \in 1..Len(ids) :
       /\ DictHas(snapshots, ids[i])
       /\ LET s == DictGet(snapshots, ids[i])
              names == SelectedNames(args, s)
          IN \A j \in 1..Len(names) : DictHas(s, names[j])

(* C4: write_binary(snapshot_ids, material_names) of snapshots and names the *)
(* store holds writes the encodings of the selected materials, in the order  *)
(* of the indices and, in each snapshot, of the names; without names it      *)
(* writes for each selected snapshot all of that snapshot's own materials;   *)
(* without indices it writes all snapshots.                                  *)
C4_SelectiveEncode ==
  Returned("write_binary") /\ ~IsNone(path_to_file) /\ Selectable(ret.args) =>
    LET ids == SelectedIds(ret.args)
        block(i) == LET s == DictGet(snapshots, ids[i])
                    IN Concat([j \in 1..Len(SelectedNames(ret.args, s)) |->
                                 to_binary(DictGet(s, SelectedNames(ret.args, s)[j]))])
    IN /\ ret.kind = "ok"
       /\ disk = Some(Concat([i \in 1..Len(ids) |-> block(i)]))

----------------------------------------------------------------------------
(* Claims about truncated files *)

(* the file ends inside the last record of stream *)
Truncated ==
  /\ ~IsNone(disk) /\ stream # <<>>
  /\ Len(Val(disk)) < Len(stream_bytes(stream))

(* the offset in the file of the last record of stream *)
LastRecordAt == Len(stream_bytes(SubSeq(stream, 1, Len(stream) - 1)))

----------------------------------------------------------------------------
(* Claims about encoding a decoded record again *)

(* in a block of to_binary for a name of n characters: the nuclide count     *)
(* field, and the number of 16-byte pairs after the fixed fields             *)
CountWritten(block, n) == unpack_q(SubSeq(block, 8 + n + 16 + 1, 8 + n + 24))
PairsWritten(block, n) == (Len(block) - (8 + n + 48)) \div 16

(* C12: for a Material that Material.read has made from a complete record,  *)
(* also one in which a nuclide identifier occurs twice, the nuclide count    *)
(* to_binary writes is the number of pairs it writes after it, and the block *)
(* is read again without an error as the same Material.                      *)
C12_ReencodeWellFormed ==
  /\ cpc = "encoded" =>
       CountWritten(cblock, Len(cmat.name)) = PairsWritten(cblock, Len(cmat.name))
  /\ cpc = "decoded again" => cread.kind = "ok" /\ SameMaterial(cread.mat, cmat)

====
